---- MODULE Spec2Model ----
(***************************************************************************)
(* TL-MBOX: the host-side transport between CPU1 and the BLE stack on      *)
(* CPU2 (embassy-stm32/src/tl_mbox/mod.rs).                                 *)
(*                                                                         *)
(* mod.rs holds the shared statics, TlMbox::init, wireless_fw_info, the    *)
(* field accessors of WirelessFwInfoTable, send_ble_cmd, read and the two  *)
(* IPCC dispatch routines.  The sub-modules it calls (ble, sys, mm, evt,   *)
(* unsafe_linked_list, channels) and the IPCC driver are modelled from     *)
(* their description in the specification document.                        *)
(***************************************************************************)
EXTENDS Integers, Sequences, FiniteSets, TLC

VARIABLES
    init_pc,                \* position inside TlMbox::init
    instances,              \* TlMbox values init has constructed
    TL_REF_TABLE,           \* reference table: table name -> pointer
    tables,                 \* content class of each MB_MEM1 table / sentinel
    TL_DEVICE_INFO_TABLE,   \* wireless_fw_info_table: version, memory_size
    BLE_CMD_BUFFER,         \* serial part of the BLE command packet (bytes)
    SYS_CMD_BUF,            \* serial part of the SYS command packet (bytes)
    tx_raised,              \* CPU1->CPU2 channels whose flag is raised
    rx_pending,             \* CPU2->CPU1 channels whose flag is pending
    EVT_QUEUE,              \* BLE event queue (ring behind the sentinel)
    SYSTEM_EVT_QUEUE,       \* SYS event queue
    TL_CHANNEL,             \* consumer channel of EvtBox values
    held,                   \* EvtBox values the consumer holds
    carved,                 \* event buffers CPU2 carves out of EVT_POOL
    LOCAL_FREE_BUF_QUEUE,   \* host-local release list
    FREE_BUFF_QUEUE,        \* shared pevt_free_queue
    shci_waiting,           \* a caller is blocked in shci_ble_init
    panicked,               \* the program has panicked
    op,                     \* the operation that ran last, and its branch
    cmd_arg,                \* argument of the last send_ble_cmd
    fw_ret,                 \* value the last wireless_fw_info returned
    info_written,           \* CPU2 has written the device-info table
    decoded,                \* fields the accessors returned
    ll_next,                \* a list on its own: the next pointer of each node
    ll_prev,                \* the prev pointer of each node
    ll_ops                  \* inserts and removes since the list's init

vars == <<init_pc, TL_REF_TABLE, tables, TL_DEVICE_INFO_TABLE, BLE_CMD_BUFFER,
          SYS_CMD_BUF, tx_raised, rx_pending, EVT_QUEUE,
          SYSTEM_EVT_QUEUE, TL_CHANNEL, held, LOCAL_FREE_BUF_QUEUE,
          FREE_BUFF_QUEUE, shci_waiting, panicked, op, cmd_arg, fw_ret, info_written, decoded,
          carved, instances, ll_next, ll_prev, ll_ops>>

\* the reference table and the classes of the other tables
init_vars == <<init_pc, instances, TL_REF_TABLE, tables>>

\* the device-info table and what was read from it
info_vars == <<TL_DEVICE_INFO_TABLE, info_written, fw_ret, decoded>>

\* the command buffers
cmd_vars == <<BLE_CMD_BUFFER, SYS_CMD_BUF, cmd_arg>>

\* the event queues, the consumer channel and the release lists
queue_vars == <<EVT_QUEUE, SYSTEM_EVT_QUEUE, TL_CHANNEL, held,
                LOCAL_FREE_BUF_QUEUE, FREE_BUFF_QUEUE>>

evt_vars == <<carved, rx_pending, queue_vars>>

\* an intrusive list exercised on its own
list_vars == <<ll_next, ll_prev, ll_ops>>

(***************************************************************************)
(* Bounds                                                                  *)
(***************************************************************************)
\* event buffers CPU2 carves out of EVT_POOL and the two spare buffers
NumBufs == 3
\* the same during an event storm, when the consumer channel fills up
StormBufs == 6
\* nodes CPU2 leaves on the BLE event queue before the host drains it
MaxQueue == 2
\* nodes CPU2 leaves on the SYS event queue before the host drains it
MaxSysQueue == 2
\* EvtBox values the consumer keeps before dropping one
MaxHeld == 1
\* bytes of a command packet's serial part that are modelled
CmdBufLen == 4
\* calls of TlMbox::init the application makes
MaxInits == 2
\* packet headers that can be put on the list
ListNodes == 3
\* insertions into the list since its init
MaxListOps == 4

(***************************************************************************)
(* 32-bit words, kept as their four bytes (least significant first)        *)
(***************************************************************************)
ZeroWord == <<0, 0, 0, 0>>

Word(b3, b2, b1, b0) == <<b0, b1, b2, b3>>

Bit(w, i) == (w[(i \div 8) + 1] \div (2 ^ (i % 8))) % 2

RECURSIVE bits_from(_, _, _, _)
bits_from(w, lo, i, hi) ==
    IF i >= hi THEN 0
    ELSE Bit(w, i) * (2 ^ (i - lo)) + bits_from(w, lo, i + 1, hi)

\* bit_field::BitField::get_bits(lo..hi): the half-open range lo..hi
get_bits(w, lo, hi) == bits_from(w, lo, lo, hi)

(***************************************************************************)
(* WirelessFwInfoTable accessors                                           *)
(***************************************************************************)
version_major(info) == get_bits(info.version, 24, 31) % 256

version_minor(info) == get_bits(info.version, 16, 23) % 256

subversion(info) == get_bits(info.version, 8, 15) % 256

flash_size(info) == get_bits(info.memory_size, 0, 7) % 256

sram2a_size(info) == get_bits(info.memory_size, 24, 31) % 256

sram2b_size(info) == get_bits(info.memory_size, 16, 23) % 256

(***************************************************************************)
(* Values                                                                  *)
(***************************************************************************)
\* the MB_MEM1 descriptor tables of the reference table, in field order
TableNames == <<"device_info_table", "ble_table", "thread_table", "sys_table",
                "mem_manager_table", "traces_table", "mac_802_15_4_table",
                "zigbee_table", "lld_tests_table", "ble_lld_table">>

TableSet == {TableNames[i] : i \in 1..Len(TableNames)}

SentinelSet == {"EVT_QUEUE", "SYSTEM_EVT_QUEUE", "FREE_BUFF_QUEUE",
                "LOCAL_FREE_BUF_QUEUE"}

\* version words and memory-size words the device-info region may hold
VersionWords == {ZeroWord, Word(1, 13, 2, 0)}

MemoryWords == {ZeroWord, Word(32, 16, 0, 128)}

InfoTables == [version : VersionWords, memory_size : MemoryWords]

\* buffers passed to send_ble_cmd (HCI Reset, and a shorter one)
CmdArgs == {<<3, 12, 0>>, <<5, 7>>}

NoRet == [tag |-> "nocall"]

None == [tag |-> "None"]

Some(info) == [tag |-> "Some", info |-> info]

NoDecoded == [tag |-> "nocall"]

NoArg == <<>>

ZeroBuffer == [i \in 1..CmdBufLen |-> 0]

\* the list: its sentinel and the packet headers put on it
Sentinel == 0

LLNodes == 0..ListNodes

\* a pointer field of a node nothing has written yet
Dangling == 0 - 1

NoListOps == [inserts |-> 0, removes |-> 0]

\* CPU1 -> CPU2 and CPU2 -> CPU1 channels of the IPCC that are used here
TxChannels == {"BLE_CMD", "SYS_CMD", "MM_RELEASE_BUFFER"}

RxChannels == {"BLE_EVENT", "SYS_EVENT"}

(***************************************************************************)
(* The statics before TlMbox::init: MaybeUninit::uninit(), whatever the    *)
(* memory held; TL_CHANNEL is Channel::new().                              *)
(***************************************************************************)
TL_CHANNEL_CAP_6 == 5 + 1

\* Channel<CriticalSectionRawMutex, EvtBox, 5>
TL_CHANNEL_CAP == 5

InitBase ==
    /\ init_pc = "uninit"
    /\ instances = 0
    /\ TL_REF_TABLE = [t \in TableSet |-> "stale"]
    /\ tables = [t \in TableSet \cup SentinelSet |-> "stale"]
    /\ BLE_CMD_BUFFER \in {ZeroBuffer, [i \in 1..CmdBufLen |-> 255]}
    /\ SYS_CMD_BUF = <<>>
    /\ tx_raised = {}
    /\ rx_pending = {}
    /\ EVT_QUEUE = <<>>
    /\ SYSTEM_EVT_QUEUE = <<>>
    /\ TL_CHANNEL = <<>>
    /\ held = {}
    /\ LOCAL_FREE_BUF_QUEUE = <<>>
    /\ FREE_BUFF_QUEUE = <<>>
    /\ shci_waiting = FALSE
    /\ panicked = FALSE
    /\ op = "none"
    /\ cmd_arg = NoArg
    /\ fw_ret = NoRet
    /\ info_written = FALSE
    /\ decoded = NoDecoded
    /\ ll_next = [n \in LLNodes |-> Dangling]
    /\ ll_prev = [n \in LLNodes |-> Dangling]
    /\ ll_ops = NoListOps

Init ==
    /\ InitBase
    /\ TL_DEVICE_INFO_TABLE \in InfoTables
    /\ carved = 1..NumBufs

(***************************************************************************)
(* TlMbox::init, in the order of its statements                            *)
(***************************************************************************)
RefTableInit_slip ==
    [t \in TableSet |-> IF t = "sys_table" THEN "ble_table" ELSE t]

\* TL_REF_TABLE = MaybeUninit::new(RefTable { .. })
RefTableInit == [t \in TableSet |-> t]

ZeroedDeviceInfo_keep(old) == old

\* TL_DEVICE_INFO_TABLE = MaybeUninit::zeroed()
ZeroedDeviceInfo(old) == [version |-> ZeroWord, memory_size |-> ZeroWord]

ZeroedTables_skip(old) ==
    [t \in TableSet \cup SentinelSet |->
        IF t \in TableSet \ {"zigbee_table"} THEN "zeroed" ELSE old[t]]

\* TL_SYS_TABLE .. TL_BLE_LLD_TABLE = MaybeUninit::zeroed(): the ten
\* descriptor tables; the queue sentinels are not written here
ZeroedTables(old) ==
    [t \in TableSet \cup SentinelSet |->
        IF t \in TableSet THEN "zeroed" ELSE old[t]]

\* the unsafe block: the reference table, then every table and buffer zeroed
init_unsafe_block ==
    /\ TL_REF_TABLE' = RefTableInit
    /\ tables' = ZeroedTables(tables)
    /\ TL_DEVICE_INFO_TABLE' = ZeroedDeviceInfo(TL_DEVICE_INFO_TABLE)
    /\ BLE_CMD_BUFFER' = ZeroBuffer

\* the first call of TlMbox::init enters the unsafe block
init_tables ==
    /\ init_pc = "uninit"
    /\ init_pc' = "ipcc"
    /\ init_unsafe_block
    /\ op' = "init"
    /\ UNCHANGED <<instances, evt_vars, info_written, fw_ret, decoded,
                   SYS_CMD_BUF, cmd_arg, tx_raised, shci_waiting, panicked>>
    /\ UNCHANGED list_vars

\* ipcc.init()
init_ipcc ==
    /\ init_pc = "ipcc"
    /\ init_pc' = "sys"
    /\ tx_raised' = {}
    /\ rx_pending' = {}
    /\ op' = "init"
    /\ UNCHANGED <<instances, TL_REF_TABLE, tables, info_vars, cmd_vars,
                   carved, queue_vars, shci_waiting, panicked>>
    /\ UNCHANGED list_vars

\* Sys::new(ipcc): SYS table populated, SYSTEM_EVT_QUEUE sentinel initialised
init_sys ==
    /\ init_pc = "sys"
    /\ init_pc' = "ble"
    /\ tables' = [tables EXCEPT !["sys_table"] = "populated",
                                !["SYSTEM_EVT_QUEUE"] = "ring"]
    /\ SYSTEM_EVT_QUEUE' = <<>>
    /\ op' = "init"
    /\ UNCHANGED <<instances, TL_REF_TABLE, info_vars, cmd_vars, carved,
                   rx_pending, EVT_QUEUE, TL_CHANNEL, held, LOCAL_FREE_BUF_QUEUE,
                   FREE_BUFF_QUEUE, tx_raised, shci_waiting, panicked>>
    /\ UNCHANGED list_vars

\* Ble::new(ipcc): BLE table populated, EVT_QUEUE sentinel initialised
init_ble ==
    /\ init_pc = "ble"
    /\ init_pc' = "mm"
    /\ tables' = [tables EXCEPT !["ble_table"] = "populated",
                                !["EVT_QUEUE"] = "ring"]
    /\ EVT_QUEUE' = <<>>
    /\ op' = "init"
    /\ UNCHANGED <<instances, TL_REF_TABLE, info_vars, cmd_vars, carved,
                   rx_pending, SYSTEM_EVT_QUEUE, TL_CHANNEL, held, LOCAL_FREE_BUF_QUEUE,
                   FREE_BUFF_QUEUE, tx_raised, shci_waiting, panicked>>
    /\ UNCHANGED list_vars

\* MemoryManager::new(): MM table populated, both free lists initialised;
\* then TlMbox { _sys, _ble, _mm } is returned
init_mm ==
    /\ init_pc = "mm"
    /\ init_pc' = "done"
    /\ instances' = instances + 1
    /\ tables' = [tables EXCEPT !["mem_manager_table"] = "populated",
                                !["FREE_BUFF_QUEUE"] = "ring",
                                !["LOCAL_FREE_BUF_QUEUE"] = "ring"]
    /\ FREE_BUFF_QUEUE' = <<>>
    /\ LOCAL_FREE_BUF_QUEUE' = <<>>
    /\ op' = "init"
    /\ UNCHANGED <<TL_REF_TABLE, info_vars, cmd_vars, carved, rx_pending,
                   EVT_QUEUE, SYSTEM_EVT_QUEUE, TL_CHANNEL, held, tx_raised,
                   shci_waiting, panicked>>
    /\ UNCHANGED list_vars

\* the application task holds a TlMbox and is not blocked or aborted
HostReady == init_pc = "done" /\ ~panicked /\ ~shci_waiting

\* interrupts are taken once init has returned and until a panic
IsrReady == init_pc = "done" /\ ~panicked

\* CPU2 runs its firmware once the tables are in place
Cpu2Ready == init_pc = "done" /\ ~panicked

\* a further call of TlMbox::init(ipcc, irqs): init takes &mut Ipcc and a
\* binding value, tests nothing and enters the unsafe block again
init_again ==
    /\ HostReady
    /\ instances < MaxInits
    /\ init_pc' = "ipcc"
    /\ init_unsafe_block
    /\ op' = "init_again"
    /\ UNCHANGED <<instances, evt_vars, info_written, fw_ret, decoded,
                   SYS_CMD_BUF, cmd_arg, tx_raised, shci_waiting, panicked>>
    /\ UNCHANGED list_vars

(***************************************************************************)
(* IPCC driver contract                                                    *)
(***************************************************************************)
\* is_rx_pending(ch): the CPU2 -> CPU1 flag of ch is pending
is_rx_pending(ch) == ch \in rx_pending

\* is_tx_pending(ch): the CPU1 -> CPU2 channel ch is free
is_tx_pending(ch) == ch \notin tx_raised

(***************************************************************************)
(* wireless_fw_info                                                        *)
(***************************************************************************)
wireless_fw_info_bug(info) ==
    IF info.memory_size # ZeroWord THEN Some(info) ELSE None

\* zero version indicates that CPU2 wasn't active
wireless_fw_info_ret(info) ==
    IF info.version # ZeroWord THEN Some(info) ELSE None

wireless_fw_info ==
    /\ HostReady
    /\ TL_REF_TABLE["device_info_table"] = "device_info_table"
    /\ fw_ret' = wireless_fw_info_ret(TL_DEVICE_INFO_TABLE)
    /\ op' = "wireless_fw_info"
    /\ UNCHANGED <<init_vars, evt_vars, cmd_vars, TL_DEVICE_INFO_TABLE,
                   info_written, decoded, tx_raised, shci_waiting, panicked>>
    /\ UNCHANGED list_vars

(***************************************************************************)
(* Commands                                                                *)
(***************************************************************************)
\* kind byte of an HCI command packet
HCI_CMD == 1

\* Ble::send_cmd, the copy: kind = HCI_CMD, then the bytes of buf
Ble_send_cmd_copy(old, buf) ==
    [i \in 1..CmdBufLen |->
        IF i = 1 THEN HCI_CMD
        ELSE IF i - 1 <= Len(buf) THEN buf[i - 1] ELSE old[i]]

\* Ble::send_cmd(ipcc, buf): copy, then raise the BLE command channel
Ble_send_cmd(buf) ==
    /\ BLE_CMD_BUFFER' = Ble_send_cmd_copy(BLE_CMD_BUFFER, buf)
    /\ tx_raised' = tx_raised \cup {"BLE_CMD"}
    /\ UNCHANGED SYS_CMD_BUF

\* Sys::send_cmd(ipcc, buf), as shci_ble_init uses it
Sys_send_cmd(buf) ==
    /\ SYS_CMD_BUF' = buf
    /\ tx_raised' = tx_raised \cup {"SYS_CMD"}
    /\ UNCHANGED BLE_CMD_BUFFER

send_ble_cmd_sys(buf) ==
    /\ HostReady
    /\ Sys_send_cmd(buf)
    /\ cmd_arg' = buf
    /\ op' = "send_ble_cmd"
    /\ UNCHANGED <<init_vars, evt_vars, info_vars, shci_waiting, panicked>>
    /\ UNCHANGED list_vars

send_ble_cmd(buf) ==
    /\ HostReady
    /\ Ble_send_cmd(buf)
    /\ cmd_arg' = buf
    /\ op' = "send_ble_cmd"
    /\ UNCHANGED <<init_vars, evt_vars, info_vars, shci_waiting, panicked>>
    /\ UNCHANGED list_vars

\* the SHCI_OPCODE_BLE_INIT command with its parameter block
ShciBleInitCmd == <<"SHCI_BLE_INIT">>

\* shci_ble_init(ipcc, param): emits the SYS command, blocks on completion
shci_ble_init ==
    /\ HostReady
    /\ Sys_send_cmd(ShciBleInitCmd)
    /\ shci_waiting' = TRUE
    /\ op' = "shci_ble_init"
    /\ UNCHANGED <<init_vars, evt_vars, info_vars, cmd_arg, panicked>>
    /\ UNCHANGED list_vars

(***************************************************************************)
(* Memory manager and consumer channel                                     *)
(***************************************************************************)
Range(q) == {q[i] : i \in 1..Len(q)}

\* an event packet: the buffer it lives in and its kind byte; the release
\* lists hold the bare buffers
Event(b, k) == [buf |-> b, kind |-> k]

BufsOf(q) == {q[i].buf : i \in 1..Len(q)}

\* a delivery in progress: the channel, the release list, the MM flag
Delivery(ch, loc, raise) == [ch |-> ch, loc |-> loc, raise |-> raise]

\* MemoryManager::evt_drop(buf): push on the release list, raise MM-release
Mm_evt_drop(st, e) ==
    [st EXCEPT !.loc = Append(@, e.buf), !.raise = TRUE]

\* TL_CHANNEL.try_send(EvtBox): a full channel hands the box back, which
\* is dropped
try_send(st, e) ==
    IF Len(st.ch) < TL_CHANNEL_CAP
    THEN [st EXCEPT !.ch = Append(@, e)]
    ELSE Mm_evt_drop(st, e)

RECURSIVE drain(_, _)
drain(q, st) ==
    IF q = <<>> THEN st ELSE drain(Tail(q), try_send(st, Head(q)))

\* the state a handler starts from
Delivery0 == Delivery(TL_CHANNEL, LOCAL_FREE_BUF_QUEUE, FALSE)

\* what a handler leaves behind
Delivered(st) ==
    /\ TL_CHANNEL' = st.ch
    /\ LOCAL_FREE_BUF_QUEUE' = st.loc
    /\ tx_raised' = IF st.raise THEN tx_raised \cup {"MM_RELEASE_BUFFER"}
                    ELSE tx_raised

(***************************************************************************)
(* Event handlers and the RX dispatch                                      *)
(***************************************************************************)
\* Ble::evt_handler(ipcc): detach the nodes of EVT_QUEUE from its head, push
\* each as an EvtBox to the consumer channel, then acknowledge the BLE
\* event channel
Ble_evt_handler ==
    /\ Delivered(drain(EVT_QUEUE, Delivery0))
    /\ EVT_QUEUE' = <<>>
    /\ rx_pending' = rx_pending \ {"BLE_EVENT"}
    /\ UNCHANGED SYSTEM_EVT_QUEUE

\* Sys::evt_handler(ipcc): drain SYSTEM_EVT_QUEUE into the consumer channel,
\* acknowledge the SYS event channel
Sys_evt_handler ==
    /\ Delivered(drain(SYSTEM_EVT_QUEUE, Delivery0))
    /\ SYSTEM_EVT_QUEUE' = <<>>
    /\ rx_pending' = rx_pending \ {"SYS_EVENT"}
    /\ UNCHANGED EVT_QUEUE

\* todo!()
Panic == panicked' = TRUE

interrupt_ipcc_rx_handler_ble_first(other) ==
    /\ IsrReady
    /\ rx_pending # {} \/ other
    /\ IF is_rx_pending("BLE_EVENT")
       THEN /\ Ble_evt_handler
            /\ op' = "rx_ble_evt"
            /\ UNCHANGED panicked
       ELSE IF is_rx_pending("SYS_EVENT")
       THEN /\ Sys_evt_handler
            /\ op' = "rx_sys_evt"
            /\ UNCHANGED panicked
       ELSE /\ Panic
            /\ op' = "rx_todo"
            /\ UNCHANGED <<rx_pending, EVT_QUEUE, SYSTEM_EVT_QUEUE,
                           TL_CHANNEL, LOCAL_FREE_BUF_QUEUE, tx_raised>>
    /\ UNCHANGED <<init_vars, info_vars, cmd_vars, carved, held,
                   FREE_BUFF_QUEUE, shci_waiting>>
    /\ UNCHANGED list_vars

\* TlMbox::interrupt_ipcc_rx_handler(ipcc); other: IPCC_C1_RX was requested
\* by a channel other than the SYS and BLE event channels
interrupt_ipcc_rx_handler(other) ==
    /\ IsrReady
    /\ rx_pending # {} \/ other
    /\ IF is_rx_pending("SYS_EVENT")
       THEN /\ Sys_evt_handler
            /\ op' = "rx_sys_evt"
            /\ UNCHANGED panicked
       ELSE IF is_rx_pending("BLE_EVENT")
       THEN /\ Ble_evt_handler
            /\ op' = "rx_ble_evt"
            /\ UNCHANGED panicked
       ELSE /\ Panic
            /\ op' = "rx_todo"
            /\ UNCHANGED <<rx_pending, EVT_QUEUE, SYSTEM_EVT_QUEUE,
                           TL_CHANNEL, LOCAL_FREE_BUF_QUEUE, tx_raised>>
    /\ UNCHANGED <<init_vars, info_vars, cmd_vars, carved, held,
                   FREE_BUFF_QUEUE, shci_waiting>>
    /\ UNCHANGED list_vars

(***************************************************************************)
(* The TX dispatch                                                         *)
(***************************************************************************)
\* Sys::cmd_evt_handler(ipcc): the command completed, release the caller
Sys_cmd_evt_handler ==
    /\ shci_waiting' = FALSE
    /\ UNCHANGED <<LOCAL_FREE_BUF_QUEUE, FREE_BUFF_QUEUE, tx_raised>>

\* MemoryManager::evt_handler(ipcc): move the release list to the shared
\* pevt_free_queue; raise MM-release again unless there was nothing to move
Mm_evt_handler ==
    /\ FREE_BUFF_QUEUE' = FREE_BUFF_QUEUE \o LOCAL_FREE_BUF_QUEUE
    /\ LOCAL_FREE_BUF_QUEUE' = <<>>
    /\ tx_raised' = IF LOCAL_FREE_BUF_QUEUE # <<>>
                    THEN tx_raised \cup {"MM_RELEASE_BUFFER"}
                    ELSE tx_raised
    /\ UNCHANGED shci_waiting

interrupt_ipcc_tx_handler_mm_first ==
    /\ IsrReady
    /\ IF is_tx_pending("MM_RELEASE_BUFFER")
       THEN /\ Mm_evt_handler
            /\ op' = "tx_mm_release"
            /\ UNCHANGED panicked
       ELSE IF is_tx_pending("SYS_CMD")
       THEN /\ Sys_cmd_evt_handler
            /\ op' = "tx_sys_cmd_rsp"
            /\ UNCHANGED panicked
       ELSE /\ Panic
            /\ op' = "tx_todo"
            /\ UNCHANGED <<shci_waiting, LOCAL_FREE_BUF_QUEUE,
                           FREE_BUFF_QUEUE, tx_raised>>
    /\ UNCHANGED <<init_vars, info_vars, cmd_vars, carved, rx_pending,
                   EVT_QUEUE, SYSTEM_EVT_QUEUE, TL_CHANNEL, held>>
    /\ UNCHANGED list_vars

interrupt_ipcc_tx_handler_busy ==
    /\ IsrReady
    /\ IF is_tx_pending("SYS_CMD")
       THEN /\ Sys_cmd_evt_handler
            /\ op' = "tx_sys_cmd_rsp"
            /\ UNCHANGED panicked
       ELSE IF ~is_tx_pending("MM_RELEASE_BUFFER")
       THEN /\ Mm_evt_handler
            /\ op' = "tx_mm_release"
            /\ UNCHANGED panicked
       ELSE /\ Panic
            /\ op' = "tx_todo"
            /\ UNCHANGED <<shci_waiting, LOCAL_FREE_BUF_QUEUE,
                           FREE_BUFF_QUEUE, tx_raised>>
    /\ UNCHANGED <<init_vars, info_vars, cmd_vars, carved, rx_pending,
                   EVT_QUEUE, SYSTEM_EVT_QUEUE, TL_CHANNEL, held>>
    /\ UNCHANGED list_vars

\* TlMbox::interrupt_ipcc_tx_handler(ipcc)
interrupt_ipcc_tx_handler ==
    /\ IsrReady
    /\ IF is_tx_pending("SYS_CMD")
       THEN /\ Sys_cmd_evt_handler
            /\ op' = "tx_sys_cmd_rsp"
            /\ UNCHANGED panicked
       ELSE IF is_tx_pending("MM_RELEASE_BUFFER")
       THEN /\ Mm_evt_handler
            /\ op' = "tx_mm_release"
            /\ UNCHANGED panicked
       ELSE /\ Panic
            /\ op' = "tx_todo"
            /\ UNCHANGED <<shci_waiting, LOCAL_FREE_BUF_QUEUE,
                           FREE_BUFF_QUEUE, tx_raised>>
    /\ UNCHANGED <<init_vars, info_vars, cmd_vars, carved, rx_pending,
                   EVT_QUEUE, SYSTEM_EVT_QUEUE, TL_CHANNEL, held>>
    /\ UNCHANGED list_vars

(***************************************************************************)
(* The handlers bound to the interrupts                                    *)
(***************************************************************************)
\* ReceiveInterruptHandler::on_interrupt, bound to IPCC_C1_RX
rx_on_interrupt ==
    /\ IsrReady
    /\ rx_pending # {}
    /\ op' = "rx_on_interrupt"
    /\ UNCHANGED <<init_vars, info_vars, cmd_vars, evt_vars, tx_raised,
                   shci_waiting, panicked>>
    /\ UNCHANGED list_vars

\* TransmitInterruptHandler::on_interrupt, bound to IPCC_C1_TX
tx_on_interrupt ==
    /\ IsrReady
    /\ \E ch \in TxChannels : is_tx_pending(ch)
    /\ op' = "tx_on_interrupt"
    /\ UNCHANGED <<init_vars, info_vars, cmd_vars, evt_vars, tx_raised,
                   shci_waiting, panicked>>
    /\ UNCHANGED list_vars

(***************************************************************************)
(* Consumer                                                                *)
(***************************************************************************)
recv_lifo(ch) ==
    [item |-> ch[Len(ch)], rest |-> SubSeq(ch, 1, Len(ch) - 1)]

recv_peek(ch) == [item |-> Head(ch), rest |-> ch]

\* TL_CHANNEL.recv(): the oldest element of the channel
recv(ch) == [item |-> Head(ch), rest |-> Tail(ch)]

\* TlMbox::read(): TL_CHANNEL.recv().await
read ==
    /\ HostReady
    /\ TL_CHANNEL # <<>>
    /\ Cardinality(held) < MaxHeld
    /\ held' = held \cup {recv(TL_CHANNEL).item}
    /\ TL_CHANNEL' = recv(TL_CHANNEL).rest
    /\ op' = "read"
    /\ UNCHANGED <<init_vars, info_vars, cmd_vars, carved, rx_pending,
                   EVT_QUEUE, SYSTEM_EVT_QUEUE, LOCAL_FREE_BUF_QUEUE,
                   FREE_BUFF_QUEUE, tx_raised, shci_waiting, panicked>>
    /\ UNCHANGED list_vars

\* EvtBox::drop: return the buffer to the memory manager
EvtBox_drop(e) ==
    /\ HostReady
    /\ e \in held
    /\ held' = held \ {e}
    /\ Delivered(Mm_evt_drop(Delivery0, e))
    /\ op' = "drop"
    /\ UNCHANGED <<init_vars, info_vars, cmd_vars, carved, rx_pending,
                   EVT_QUEUE, SYSTEM_EVT_QUEUE, FREE_BUFF_QUEUE,
                   shci_waiting, panicked>>
    /\ UNCHANGED list_vars

(***************************************************************************)
(* The coprocessor                                                         *)
(***************************************************************************)
\* buffers the host or a queue holds; the others are in CPU2's pool
InUse == BufsOf(EVT_QUEUE) \cup BufsOf(SYSTEM_EVT_QUEUE)
         \cup BufsOf(TL_CHANNEL) \cup {e.buf : e \in held}
         \cup Range(LOCAL_FREE_BUF_QUEUE) \cup Range(FREE_BUFF_QUEUE)

Pool == carved \ InUse

\* the allocator of CPU2 is first-fit: the lowest free buffer
Alloc == CHOOSE b \in Pool : \A c \in Pool : b <= c

\* CPU2 writes one word of the wireless-firmware descriptor
cpu2_write_version(w) ==
    /\ Cpu2Ready
    /\ TL_DEVICE_INFO_TABLE.version # w
    /\ TL_DEVICE_INFO_TABLE' = [TL_DEVICE_INFO_TABLE EXCEPT !.version = w]
    /\ info_written' = TRUE
    /\ op' = "cpu2"
    /\ UNCHANGED <<init_vars, evt_vars, cmd_vars, fw_ret, decoded, tx_raised,
                   shci_waiting, panicked>>
    /\ UNCHANGED list_vars

cpu2_write_memory_size(w) ==
    /\ Cpu2Ready
    /\ TL_DEVICE_INFO_TABLE.memory_size # w
    /\ TL_DEVICE_INFO_TABLE' = [TL_DEVICE_INFO_TABLE EXCEPT !.memory_size = w]
    /\ info_written' = TRUE
    /\ op' = "cpu2"
    /\ UNCHANGED <<init_vars, evt_vars, cmd_vars, fw_ret, decoded, tx_raised,
                   shci_waiting, panicked>>
    /\ UNCHANGED list_vars

\* CPU2 appends an event node to the BLE event queue and raises BLE_EVENT
cpu2_post_ble_event ==
    /\ Cpu2Ready
    /\ Pool # {}
    /\ Len(EVT_QUEUE) < MaxQueue
    /\ EVT_QUEUE' = Append(EVT_QUEUE, Event(Alloc, "ble"))
    /\ rx_pending' = rx_pending \cup {"BLE_EVENT"}
    /\ op' = "cpu2"
    /\ UNCHANGED <<init_vars, info_vars, cmd_vars, carved, SYSTEM_EVT_QUEUE,
                   TL_CHANNEL, held, LOCAL_FREE_BUF_QUEUE, FREE_BUFF_QUEUE,
                   tx_raised, shci_waiting, panicked>>
    /\ UNCHANGED list_vars

\* CPU2 appends an event node to the SYS event queue and raises SYS_EVENT
cpu2_post_sys_event ==
    /\ Cpu2Ready
    /\ Pool # {}
    /\ Len(SYSTEM_EVT_QUEUE) < MaxSysQueue
    /\ SYSTEM_EVT_QUEUE' = Append(SYSTEM_EVT_QUEUE, Event(Alloc, "sys"))
    /\ rx_pending' = rx_pending \cup {"SYS_EVENT"}
    /\ op' = "cpu2"
    /\ UNCHANGED <<init_vars, info_vars, cmd_vars, carved, EVT_QUEUE,
                   TL_CHANNEL, held, LOCAL_FREE_BUF_QUEUE, FREE_BUFF_QUEUE,
                   tx_raised, shci_waiting, panicked>>
    /\ UNCHANGED list_vars

\* CPU2 has taken what the host raised on ch and clears the flag; on
\* MM-release it takes the batch of freed buffers back into its pool
cpu2_ack(ch) ==
    /\ Cpu2Ready
    /\ ch \in tx_raised
    /\ tx_raised' = tx_raised \ {ch}
    /\ FREE_BUFF_QUEUE' = IF ch = "MM_RELEASE_BUFFER" THEN <<>>
                          ELSE FREE_BUFF_QUEUE
    /\ op' = "cpu2"
    /\ UNCHANGED <<init_vars, info_vars, cmd_vars, carved, rx_pending,
                   EVT_QUEUE, SYSTEM_EVT_QUEUE, TL_CHANNEL, held,
                   LOCAL_FREE_BUF_QUEUE, shci_waiting, panicked>>
    /\ UNCHANGED list_vars

(***************************************************************************)
(* The intrusive list (unsafe_linked_list), on a list of its own: a        *)
(* sentinel and ListNodes packet headers                                   *)
(***************************************************************************)
\* the two pointer fields of every node
LinkedList(nx, pv) == [next |-> nx, prev |-> pv]

\* init(node): a singleton ring
init_head(l, head) ==
    LinkedList([l.next EXCEPT ![head] = head], [l.prev EXCEPT ![head] = head])

\* is_empty(list)
is_empty(l, head) == l.next[head] = head

\* insert_head(list, node): node.next = list.next; node.prev = list;
\* list.next = node; node.next.prev = node
insert_head(l, head, node) ==
    LET first == l.next[head]
    IN  LinkedList([l.next EXCEPT ![node] = first, ![head] = node],
                   [l.prev EXCEPT ![node] = head, ![first] = node])

insert_tail_slip(l, head, node) ==
    LET last == l.prev[head]
    IN  LinkedList([l.next EXCEPT ![node] = head, ![last] = node],
                   [l.prev EXCEPT ![node] = last])

\* insert_tail(list, node): node.next = list; node.prev = list.prev;
\* list.prev = node; node.prev.next = node
insert_tail(l, head, node) ==
    LET last == l.prev[head]
    IN  LinkedList([l.next EXCEPT ![node] = head, ![last] = node],
                   [l.prev EXCEPT ![node] = last, ![head] = node])

\* remove(node): node.prev.next = node.next; node.next.prev = node.prev;
\* the fields of the removed node are left as they are
remove_node(l, node) ==
    LinkedList([l.next EXCEPT ![l.prev[node]] = l.next[node]],
               [l.prev EXCEPT ![l.next[node]] = l.prev[node]])

\* remove_head(list): the first node, or none when the list is empty
remove_head(l, head) ==
    IF is_empty(l, head) THEN l ELSE remove_node(l, l.next[head])

\* the nodes met from node n following the pointers f until the sentinel,
\* a pointer nothing wrote, or k nodes
RECURSIVE Walk(_, _, _)
Walk(f, n, k) ==
    IF k = 0 \/ f[n] = Sentinel \/ f[n] = Dangling THEN <<>>
    ELSE <<f[n]>> \o Walk(f, f[n], k - 1)

Forward == Walk(ll_next, Sentinel, ListNodes + 1)

Backward == Walk(ll_prev, Sentinel, ListNodes + 1)

\* the list as the operations take it, and as they leave it
TheList == LinkedList(ll_next, ll_prev)

ListBecomes(l) == ll_next' = l.next /\ ll_prev' = l.prev

ListRest == UNCHANGED <<init_vars, info_vars, cmd_vars, evt_vars, tx_raised,
                        shci_waiting, panicked>>

\* the sentinel has been initialised
ListReady == ll_next[Sentinel] # Dangling

\* a packet header the caller owns and that is not on the list
OffList(n) == n \in 1..ListNodes /\ n \notin Range(Forward)

ll_init ==
    /\ ListBecomes(init_head(TheList, Sentinel))
    /\ ll_ops' = NoListOps
    /\ op' = "ll_init"
    /\ ListRest

ll_insert_head(n) ==
    /\ ListReady
    /\ OffList(n)
    /\ ll_ops.inserts < MaxListOps
    /\ ListBecomes(insert_head(TheList, Sentinel, n))
    /\ ll_ops' = [ll_ops EXCEPT !.inserts = @ + 1]
    /\ op' = "ll_insert_head"
    /\ ListRest

ll_insert_tail(n) ==
    /\ ListReady
    /\ OffList(n)
    /\ ll_ops.inserts < MaxListOps
    /\ ListBecomes(insert_tail(TheList, Sentinel, n))
    /\ ll_ops' = [ll_ops EXCEPT !.inserts = @ + 1]
    /\ op' = "ll_insert_tail"
    /\ ListRest

ll_remove_head ==
    /\ ListReady
    /\ ListBecomes(remove_head(TheList, Sentinel))
    /\ ll_ops' = IF is_empty(TheList, Sentinel) THEN ll_ops
                  ELSE [ll_ops EXCEPT !.removes = @ + 1]
    /\ op' = "ll_remove_head"
    /\ ListRest

ll_remove(n) ==
    /\ ListReady
    /\ n \in Range(Forward)
    /\ ListBecomes(remove_node(TheList, n))
    /\ ll_ops' = [ll_ops EXCEPT !.removes = @ + 1]
    /\ op' = "ll_remove"
    /\ ListRest

(***************************************************************************)
(* Specifications                                                          *)
(***************************************************************************)
InitSteps == init_tables \/ init_ipcc \/ init_sys \/ init_ble \/ init_mm

\* the event path: CPU2 posts events, the dispatch routines run, the
\* consumer reads and drops, CPU2 takes released buffers back
Next ==
    \/ InitSteps
    \/ shci_ble_init
    \/ read
    \/ \E e \in held : EvtBox_drop(e)
    \/ \E other \in BOOLEAN : interrupt_ipcc_rx_handler(other)
    \/ interrupt_ipcc_tx_handler
    \/ rx_on_interrupt
    \/ tx_on_interrupt
    \/ cpu2_post_ble_event
    \/ cpu2_post_sys_event
    \/ \E ch \in TxChannels : cpu2_ack(ch)

Spec == Init /\ [][Next]_vars

\* the command and device-info path
CmdNext ==
    \/ InitSteps
    \/ wireless_fw_info
    \/ \E buf \in CmdArgs : send_ble_cmd(buf)
    \/ shci_ble_init
    \/ interrupt_ipcc_tx_handler
    \/ tx_on_interrupt
    \/ \E w \in VersionWords : cpu2_write_version(w)
    \/ \E w \in MemoryWords : cpu2_write_memory_size(w)
    \/ \E ch \in TxChannels : cpu2_ack(ch)

CmdSpec == Init /\ [][CmdNext]_vars

\* the same with an application that calls TlMbox::init again
ReinitNext == CmdNext \/ init_again

ReinitSpec == Init /\ [][ReinitNext]_vars

\* an event storm: CPU2 carves StormBufs buffers, the TX side is idle
StormInit ==
    /\ InitBase
    /\ TL_DEVICE_INFO_TABLE \in InfoTables
    /\ carved = 1..StormBufs

StormNext ==
    \/ InitSteps
    \/ read
    \/ \E e \in held : EvtBox_drop(e)
    \/ \E other \in BOOLEAN : interrupt_ipcc_rx_handler(other)
    \/ cpu2_post_ble_event
    \/ cpu2_post_sys_event

StormSpec == StormInit /\ [][StormNext]_vars

\* the program as it is bound: IPCC_C1_RX and IPCC_C1_TX run the two
\* on_interrupt handlers, nothing calls the dispatch routines (they are
\* dead code, the set_handler calls of init are commented out), so nothing
\* sends to TL_CHANNEL and read() stays suspended.  The interrupts are
\* served whenever they are requested.
BoundNext ==
    \/ InitSteps
    \/ shci_ble_init
    \/ rx_on_interrupt
    \/ tx_on_interrupt
    \/ cpu2_post_ble_event
    \/ cpu2_post_sys_event
    \/ \E ch \in TxChannels : cpu2_ack(ch)

FairSpec ==
    /\ Init
    /\ [][BoundNext]_vars
    /\ WF_vars(rx_on_interrupt)
    /\ WF_vars(tx_on_interrupt)

\* the event path with the two dispatch routines serving the interrupts, as
\* the commented-out set_handler calls of init intend: the TX dispatch runs
\* whenever it has something to do, the consumer drops the EvtBox values it
\* holds, and CPU2 keeps taking what is raised on the MM release channel
DispatchFairSpec ==
    /\ Init
    /\ [][Next]_vars
    /\ WF_vars(interrupt_ipcc_tx_handler)
    /\ WF_vars(\E e \in held : EvtBox_drop(e))
    /\ WF_vars(cpu2_ack("MM_RELEASE_BUFFER"))

\* every sequence of the list operations on one list
ListInit ==
    /\ InitBase
    /\ TL_DEVICE_INFO_TABLE = [version |-> ZeroWord, memory_size |-> ZeroWord]
    /\ carved = {}

ListNext ==
    \/ ll_init
    \/ \E n \in 1..ListNodes : ll_insert_head(n)
    \/ \E n \in 1..ListNodes : ll_insert_tail(n)
    \/ ll_remove_head
    \/ \E n \in 1..ListNodes : ll_remove(n)

ListSpec == ListInit /\ [][ListNext]_vars

(***************************************************************************)
(* The accessors of WirelessFwInfoTable, applied to sample descriptors     *)
(***************************************************************************)
SampleBytes == {1, 128, 255}

DecodeWords ==
    {Word(a, b, c, d) : a \in SampleBytes, b \in SampleBytes,
                        c \in SampleBytes, d \in SampleBytes}
    \cup {Word(1, 13, 2, 0), Word(32, 16, 0, 128),
          Word(1, 2, 3, 4), Word(16, 32, 48, 64)}

DecodeInit ==
    /\ InitBase
    /\ TL_DEVICE_INFO_TABLE \in [version : DecodeWords,
                                 memory_size : DecodeWords]
    /\ carved = {}

\* every accessor applied to the descriptor
decode ==
    /\ decoded = NoDecoded
    /\ decoded' = [tag |-> "fields",
                   version_major |-> version_major(TL_DEVICE_INFO_TABLE),
                   version_minor |-> version_minor(TL_DEVICE_INFO_TABLE),
                   subversion |-> subversion(TL_DEVICE_INFO_TABLE),
                   flash_size |-> flash_size(TL_DEVICE_INFO_TABLE),
                   sram2a_size |-> sram2a_size(TL_DEVICE_INFO_TABLE),
                   sram2b_size |-> sram2b_size(TL_DEVICE_INFO_TABLE)]
    /\ op' = "decode"
    /\ UNCHANGED <<init_vars, evt_vars, cmd_vars, TL_DEVICE_INFO_TABLE,
                   info_written, fw_ret, tx_raised, shci_waiting, panicked>>
    /\ UNCHANGED list_vars

DecodeNext == decode

DecodeSpec == DecodeInit /\ [][DecodeNext]_vars

(***************************************************************************)
(* Properties                                                              *)
(***************************************************************************)
RxDispatched(o) == o \in {"rx_sys_evt", "rx_ble_evt", "rx_todo"}

\* C1 (FairSpec): event delivery.  Once CPU2 has placed an event node on
\* EVT_QUEUE and BLE_EVENT is pending after init, the IPCC_C1_RX interrupt
\* path eventually hands the event to the consumer: it reaches the
\* consumer channel, where a pending read() yields it as an EvtBox (unless
\* the consumer channel is full).
C1_EventDelivery ==
    \A b \in 1..NumBufs :
        (/\ init_pc = "done"
         /\ Event(b, "ble") \in Range(EVT_QUEUE)
         /\ is_rx_pending("BLE_EVENT"))
        ~> (\/ Event(b, "ble") \in held
            \/ Event(b, "ble") \in Range(TL_CHANNEL)
            \/ Len(TL_CHANNEL) >= TL_CHANNEL_CAP)

\* C2 (StormSpec): backpressure.  When the consumer channel holds 5 unread
\* events and the RX dispatch detaches a newly arrived event, the event does
\* not enter the channel, its buffer is put on the release list of the
\* memory manager with MM-release raised, and the 5 events in the channel
\* stay as they are, in their order.
C2_Backpressure ==
    [][(Len(TL_CHANNEL) = 5 /\ RxDispatched(op'))
        => /\ TL_CHANNEL' = TL_CHANNEL
           /\ \A e \in (Range(EVT_QUEUE) \cup Range(SYSTEM_EVT_QUEUE))
                       \ (Range(EVT_QUEUE') \cup Range(SYSTEM_EVT_QUEUE')) :
                /\ e \notin Range(TL_CHANNEL')
                /\ e \notin held'
                /\ e.buf \in Range(LOCAL_FREE_BUF_QUEUE')
                /\ e.buf \notin Range(LOCAL_FREE_BUF_QUEUE)
                /\ "MM_RELEASE_BUFFER" \in tx_raised']_vars

\* the sixth event of a storm was dropped: the first five buffers fill the
\* channel unread, the sixth is on the release list
C2_Witness ==
    /\ RxDispatched(op)
    /\ held = {}
    /\ [i \in 1..Len(TL_CHANNEL) |-> TL_CHANNEL[i].buf] = <<1, 2, 3, 4, 5>>
    /\ LOCAL_FREE_BUF_QUEUE = <<6>>
    /\ "MM_RELEASE_BUFFER" \in tx_raised

\* the events of kind k that were enqueued and neither read nor dropped yet:
\* those in the consumer channel, then those still on the event queue
Pipeline(k) ==
    SelectSeq(TL_CHANNEL, LAMBDA e : e.kind = k)
    \o (IF k = "ble" THEN EVT_QUEUE ELSE SYSTEM_EVT_QUEUE)

Pos(q, e) == CHOOSE i \in 1..Len(q) : q[i] = e

\* q keeps the order of p: what q has of p comes first, in the order of p,
\* and what is new in q comes after
OrderKept(p, q) ==
    \A i, j \in 1..Len(q) :
        (i < j /\ q[j] \in Range(p))
            => (q[i] \in Range(p) /\ Pos(p, q[i]) < Pos(p, q[j]))

\* C3 (Spec): FIFO delivery per event queue.  For each of the two queues,
\* the events not yet read stay in the order CPU2 enqueued them (a step
\* only removes events or adds new ones behind), and read() always yields
\* the oldest of them for its queue; so the consumer sees the events of a
\* queue in the order they were enqueued, for every interleaving.
C3_FifoPerQueue ==
    [][\A k \in {"ble", "sys"} :
        /\ OrderKept(Pipeline(k), Pipeline(k)')
        /\ \A e \in held' \ held :
              e.kind = k => (Pipeline(k) # <<>> /\ e = Head(Pipeline(k)))]_vars

\* a read that left a younger event of the same queue in the channel, with
\* an event of the other queue in the channel as well
C3_Witness ==
    /\ op = "read"
    /\ \E e \in held :
          /\ \E i \in 1..Len(TL_CHANNEL) : TL_CHANNEL[i].kind = e.kind
          /\ \E i \in 1..Len(TL_CHANNEL) : TL_CHANNEL[i].kind # e.kind

\* C4 (CmdSpec): send_ble_cmd(buf) leaves the BLE command buffer holding the
\* kind byte 0x01 followed by the bytes of buf in order (03 0C 00 gives
\* 01 03 0C 00), with the BLE_CMD channel raised.
C4_SendBleCmd ==
    op = "send_ble_cmd"
        => /\ BLE_CMD_BUFFER[1] = 1
           /\ \A i \in 1..Len(cmd_arg) : BLE_CMD_BUFFER[i + 1] = cmd_arg[i]
           /\ cmd_arg = <<3, 12, 0>>
                => SubSeq(BLE_CMD_BUFFER, 1, 4) = <<1, 3, 12, 0>>
           /\ "BLE_CMD" \in tx_raised

\* HCI Reset was sent over a shorter command
C4_Witness ==
    /\ op = "send_ble_cmd"
    /\ cmd_arg = <<3, 12, 0>>
    /\ SubSeq(BLE_CMD_BUFFER, 1, 4) = <<1, 3, 12, 0>>
    /\ "BLE_CMD" \in tx_raised

\* C5 (CmdSpec): while the BLE_CMD channel is still raised, a further
\* send_ble_cmd does not modify the BLE command buffer.
C5_NoWriteWhileRaised ==
    [][("BLE_CMD" \in tx_raised /\ op' = "send_ble_cmd")
        => BLE_CMD_BUFFER' = BLE_CMD_BUFFER]_vars

\* C6 (CmdSpec): wireless_fw_info() returns absent exactly when the stored
\* version word is zero, otherwise a copy equal to the stored descriptor,
\* and it changes no shared state.
C6_WirelessFwInfo ==
    [][op' = "wireless_fw_info"
        => /\ (fw_ret'.tag = "None") <=> (TL_DEVICE_INFO_TABLE.version = ZeroWord)
           /\ TL_DEVICE_INFO_TABLE.version # ZeroWord
                => (fw_ret'.tag = "Some" /\ fw_ret'.info = TL_DEVICE_INFO_TABLE)
           /\ UNCHANGED <<init_vars, evt_vars, TL_DEVICE_INFO_TABLE,
                          BLE_CMD_BUFFER, SYS_CMD_BUF, tx_raised>>]_vars

\* the descriptor was returned although its memory-size word is zero
C6_Witness ==
    /\ op = "wireless_fw_info"
    /\ fw_ret.tag = "Some"
    /\ fw_ret.info.version = Word(1, 13, 2, 0)
    /\ fw_ret.info.memory_size = ZeroWord

\* C7 (DecodeSpec): field decoding is exact for every word: major, minor
\* and subversion are bytes 3, 2 and 1 of the version word, the SRAM2a,
\* SRAM2b and flash sizes are bytes 3, 2 and 0 of the memory-size word, each
\* as a full 8-bit value.
C7_FieldDecoding ==
    decoded # NoDecoded
        => /\ decoded.version_major = TL_DEVICE_INFO_TABLE.version[4]
           /\ decoded.version_minor = TL_DEVICE_INFO_TABLE.version[3]
           /\ decoded.subversion = TL_DEVICE_INFO_TABLE.version[2]
           /\ decoded.sram2a_size = TL_DEVICE_INFO_TABLE.memory_size[4]
           /\ decoded.sram2b_size = TL_DEVICE_INFO_TABLE.memory_size[3]
           /\ decoded.flash_size = TL_DEVICE_INFO_TABLE.memory_size[1]

\* C8 (CmdSpec): cold boot without coprocessor.  After init, as long as CPU2
\* has not written the device-info table, wireless_fw_info() returns
\* absent, whatever the region held before init, and a BLE command issued
\* then does not panic.
C8_ColdBoot ==
    ~info_written
        => /\ op = "wireless_fw_info" => fw_ret = None
           /\ op = "send_ble_cmd" => ~panicked

\* absent was returned after a BLE command, CPU2 never having booted
C8_Witness ==
    /\ op = "wireless_fw_info"
    /\ ~info_written
    /\ cmd_arg # NoArg
    /\ fw_ret = None
    /\ ~panicked

\* C9 (Spec): nothing is panicked from the transport, whatever the public
\* operations called and the flags the dispatch routines find.
C9_NoPanic == ~panicked

\* C10 (Spec): unknown RX channel.  When the RX dispatch runs and neither
\* the SYS nor the BLE event channel is pending, no event handler runs,
\* nothing reaches the consumer, and the transport goes on (later events
\* are still dispatched).
C10_UnknownRxChannel ==
    [][(/\ RxDispatched(op')
        /\ ~is_rx_pending("SYS_EVENT")
        /\ ~is_rx_pending("BLE_EVENT"))
        => /\ UNCHANGED queue_vars
           /\ ~panicked']_vars

\* C11 (ReinitSpec): init is single-shot.  Whatever the sequence of calls,
\* at most one TlMbox is constructed, and once init has returned no later
\* call zeroes the shared tables and buffers again.
C11_SingleShot ==
    [][/\ instances' <= 1
       /\ init_pc = "done" => init_pc' = "done"
       /\ init_pc = "done" => tables' = tables]_vars

\* the reference table points every field at the static of its own table
RefTablePointsHome ==
    /\ DOMAIN TL_REF_TABLE = TableSet
    /\ \A t \in TableSet : TL_REF_TABLE[t] = t

\* C12 (Spec), as stated: in every state after init the reference table
\* holds exactly nine subtable pointers, each equal to the static address of
\* its subtable, and no later operation changes any of them.
C12_RefTableNine ==
    init_pc = "done"
        => /\ Cardinality(DOMAIN TL_REF_TABLE) = 9
           /\ RefTablePointsHome

\* C12 (Spec), amended: in every state after init the reference table holds
\* exactly the ten subtable pointers of RefTable (device-info, BLE, thread,
\* system, memory-manager, traces, 802.15.4, zigbee, LLD-tests, BLE-LLD),
\* each equal to the static address of its subtable, and no later operation
\* changes any of them.
C12_RefTableTen ==
    init_pc = "done"
        => /\ Cardinality(DOMAIN TL_REF_TABLE) = 10
           /\ RefTablePointsHome

\* the table is intact after events were dispatched, read and dropped and
\* the released buffer went back to CPU2
C12_Witness ==
    /\ init_pc = "done"
    /\ op = "tx_mm_release"
    /\ FREE_BUFF_QUEUE # <<>>
    /\ RefTablePointsHome

\* C13 (CmdSpec): once init has returned, every MB_MEM1 descriptor table is
\* all-zero or holds its populated pointers, every queue sentinel (EVT_QUEUE,
\* SYSTEM_EVT_QUEUE, FREE_BUFF_QUEUE, the host-local free list) is an empty
\* self-referential ring when init returns, and nothing of MB_MEM1 keeps
\* what it held before init: the device-info table reads zero until CPU2
\* writes it.
C13_Mem1Clean ==
    init_pc = "done"
        => /\ \A t \in TableSet : tables[t] \in {"zeroed", "populated"}
           /\ \A q \in SentinelSet : tables[q] = "ring"
           /\ ~info_written
                => TL_DEVICE_INFO_TABLE = [version |-> ZeroWord,
                                           memory_size |-> ZeroWord]
           /\ op = "init"
                => /\ EVT_QUEUE = <<>>
                   /\ SYSTEM_EVT_QUEUE = <<>>
                   /\ FREE_BUFF_QUEUE = <<>>
                   /\ LOCAL_FREE_BUF_QUEUE = <<>>

\* init has just returned: the three used tables are populated, the others
\* zero, the four sentinels are rings
C13_Witness ==
    /\ init_pc = "done"
    /\ op = "init"
    /\ \A t \in {"ble_table", "sys_table", "mem_manager_table"} :
          tables[t] = "populated"
    /\ \A t \in TableSet \ {"ble_table", "sys_table", "mem_manager_table"} :
          tables[t] = "zeroed"
    /\ \A q \in SentinelSet : tables[q] = "ring"

\* C14 (Spec): RX dispatch selection.  On an RX dispatch with the SYS event
\* channel pending, the SYS event handler runs (the SYS queue is drained and
\* SYS_EVENT acknowledged) and the BLE event handler does not, even with
\* BLE_EVENT pending too (the BLE queue and its flag are untouched);
\* otherwise, with BLE_EVENT pending, the BLE event handler runs and the SYS
\* queue is untouched.  One handler at most runs per dispatch.
C14_RxSelection ==
    [][RxDispatched(op')
        => /\ is_rx_pending("SYS_EVENT")
                => /\ SYSTEM_EVT_QUEUE' = <<>>
                   /\ rx_pending' = rx_pending \ {"SYS_EVENT"}
                   /\ EVT_QUEUE' = EVT_QUEUE
           /\ (~is_rx_pending("SYS_EVENT") /\ is_rx_pending("BLE_EVENT"))
                => /\ EVT_QUEUE' = <<>>
                   /\ rx_pending' = rx_pending \ {"BLE_EVENT"}
                   /\ SYSTEM_EVT_QUEUE' = SYSTEM_EVT_QUEUE]_vars

\* the SYS handler ran while a BLE event was pending and stays pending
C14_Witness ==
    /\ op = "rx_sys_evt"
    /\ SYSTEM_EVT_QUEUE = <<>>
    /\ EVT_QUEUE # <<>>
    /\ rx_pending = {"BLE_EVENT"}
    /\ \E i \in 1..Len(TL_CHANNEL) : TL_CHANNEL[i].kind = "sys"

TxDispatched(o) == o \in {"tx_sys_cmd_rsp", "tx_mm_release", "tx_todo"}

\* C15 (Spec): TX dispatch selection.  On a TX dispatch with the SYS
\* command-response channel free, the SYS command-completion handling runs
\* (the waiting caller is released) and the MM release handler does not
\* (both release lists and the flags are untouched); otherwise, with the MM
\* release channel free, the MM release handler runs and no caller is
\* released.  One handler at most runs per dispatch.
C15_TxSelection ==
    [][TxDispatched(op')
        => /\ is_tx_pending("SYS_CMD")
                => /\ ~shci_waiting'
                   /\ UNCHANGED <<LOCAL_FREE_BUF_QUEUE, FREE_BUFF_QUEUE,
                                  tx_raised>>
           /\ (~is_tx_pending("SYS_CMD") /\ is_tx_pending("MM_RELEASE_BUFFER"))
                => /\ LOCAL_FREE_BUF_QUEUE' = <<>>
                   /\ FREE_BUFF_QUEUE' = FREE_BUFF_QUEUE \o LOCAL_FREE_BUF_QUEUE
                   /\ UNCHANGED shci_waiting]_vars

\* the SYS completion handling ran while the MM release channel was free
\* with a buffer waiting on the release list, which stays there
C15_Witness ==
    /\ op = "tx_sys_cmd_rsp"
    /\ LOCAL_FREE_BUF_QUEUE # <<>>
    /\ is_tx_pending("MM_RELEASE_BUFFER")
    /\ ~shci_waiting

\* the number of times buffer b sits in the list q
CountIn(q, b) == Cardinality({i \in 1..Len(q) : q[i] = b})

\* the number of places buffer b is in: the two event queues, the consumer
\* channel, the EvtBox values the consumer holds, the two release lists
Residences(b) ==
    CountIn([i \in 1..Len(EVT_QUEUE) |-> EVT_QUEUE[i].buf], b)
    + CountIn([i \in 1..Len(SYSTEM_EVT_QUEUE) |-> SYSTEM_EVT_QUEUE[i].buf], b)
    + CountIn([i \in 1..Len(TL_CHANNEL) |-> TL_CHANNEL[i].buf], b)
    + Cardinality({e \in held : e.buf = b})
    + CountIn(LOCAL_FREE_BUF_QUEUE, b)
    + CountIn(FREE_BUFF_QUEUE, b)

\* C16 (Spec): single residence of buffers.  In every reachable state each
\* event packet is in at most one place among the BLE event queue, the SYS
\* event queue, the consumer channel or an EvtBox the consumer holds, the
\* host-local release list and the shared pevt_free_queue; so a packet in the
\* consumer's hands is no longer on its event queue.
C16_SingleResidence ==
    /\ \A b \in carved : Residences(b) <= 1
    /\ \A e \in Range(TL_CHANNEL) \cup held :
          e.buf \notin BufsOf(EVT_QUEUE) \cup BufsOf(SYSTEM_EVT_QUEUE)

\* three buffers in three places: one held by the consumer after a read,
\* one still on an event queue, one on a release list
C16_Witness ==
    /\ op = "read"
    /\ held # {}
    /\ EVT_QUEUE # <<>> \/ SYSTEM_EVT_QUEUE # <<>>
    /\ LOCAL_FREE_BUF_QUEUE # <<>> \/ FREE_BUFF_QUEUE # <<>>
    /\ \A b \in carved : Residences(b) = 1

\* C17 (DispatchFairSpec): buffers are always returned.  A buffer the
\* consumer drops as an EvtBox goes on the host-local release list with the
\* MM release channel raised, and every buffer the host has detached (held
\* by the consumer, or on the release list after a drop or a backpressure
\* drop) eventually appears on the shared pevt_free_queue, the consumer
\* dropping its EvtBox values and CPU2 freeing the MM release channel.
C17_BuffersReturned ==
    /\ [][\A e \in held \ held' :
            /\ e.buf \in Range(LOCAL_FREE_BUF_QUEUE')
            /\ "MM_RELEASE_BUFFER" \in tx_raised']_vars
    /\ \A b \in 1..NumBufs :
          (b \in {e.buf : e \in held} \cup Range(LOCAL_FREE_BUF_QUEUE))
              ~> (b \in Range(FREE_BUFF_QUEUE))

\* C18 (Spec): the MM release handler, run by the TX dispatch because the
\* MM release channel is free, moves all nodes of the host-local release list
\* to the end of the shared pevt_free_queue in their order (the local list is
\* empty afterwards, no node lost or duplicated); when the local list was
\* empty, the shared queue is unchanged and the MM release channel stays
\* idle (not raised).
C18_ReleaseHandler ==
    [][op' = "tx_mm_release"
        => /\ is_tx_pending("MM_RELEASE_BUFFER")
           /\ LOCAL_FREE_BUF_QUEUE' = <<>>
           /\ FREE_BUFF_QUEUE' = FREE_BUFF_QUEUE \o LOCAL_FREE_BUF_QUEUE
           /\ \A b \in carved :
                 CountIn(FREE_BUFF_QUEUE', b)
                     = CountIn(FREE_BUFF_QUEUE, b)
                       + CountIn(LOCAL_FREE_BUF_QUEUE, b)
           /\ LOCAL_FREE_BUF_QUEUE = <<>>
                => /\ FREE_BUFF_QUEUE' = FREE_BUFF_QUEUE
                   /\ "MM_RELEASE_BUFFER" \notin tx_raised']_vars

\* the handler moved two buffers, in the order they were dropped
C18_Witness ==
    /\ op = "tx_mm_release"
    /\ LOCAL_FREE_BUF_QUEUE = <<>>
    /\ Len(FREE_BUFF_QUEUE) = 2
    /\ FREE_BUFF_QUEUE[1] # FREE_BUFF_QUEUE[2]
    /\ "MM_RELEASE_BUFFER" \in tx_raised

\* ipcc.init() has run
IpccInitialised == init_pc \in {"sys", "ble", "mm", "done"}

\* C19 (CmdSpec): init step ordering.  The BLE, SYS and MM subtables are
\* populated and the queue sentinels initialised before the IPCC driver is
\* initialised: in no state is the IPCC initialised while a functionally
\* used subtable is still all-zero or a sentinel not yet a ring.
C19_InitOrdering ==
    IpccInitialised
        => /\ \A t \in {"ble_table", "sys_table", "mem_manager_table"} :
                 tables[t] = "populated"
           /\ \A q \in SentinelSet : tables[q] = "ring"

\* C20 (ListSpec): ring validity of the intrusive list.  After any sequence
\* of init, insert_head, insert_tail, remove_head and remove, the list is a
\* valid ring (n.next.prev = n and n.prev.next = n for the sentinel and every
\* node reachable from it), the nodes reachable from the sentinel are as
\* many following next as following prev, namely inserts minus removes (and
\* the same nodes, in reverse order), and is_empty holds exactly when next
\* and prev of the sentinel both point to the sentinel.
C20_RingValid ==
    ListReady
        => /\ \A n \in {Sentinel} \cup Range(Forward) :
                 /\ ll_next[n] \in LLNodes
                 /\ ll_prev[n] \in LLNodes
                 /\ ll_prev[ll_next[n]] = n
                 /\ ll_next[ll_prev[n]] = n
           /\ Len(Forward) = ll_ops.inserts - ll_ops.removes
           /\ Len(Backward) = Len(Forward)
           /\ \A i \in 1..Len(Forward) :
                 Backward[i] = Forward[Len(Forward) + 1 - i]
           /\ is_empty(TheList, Sentinel)
                <=> (ll_next[Sentinel] = Sentinel /\ ll_prev[Sentinel] = Sentinel)

\* a node was removed from the middle of a list of three built with inserts
\* at both ends
C20_Witness ==
    /\ op = "ll_remove"
    /\ Forward = <<1, 3>>
    /\ Backward = <<3, 1>>
    /\ ll_next[2] = 3
    /\ ll_ops = [inserts |-> 3, removes |-> 1]

====
